---- MODULE Spec2Model ----
(***************************************************************************)
(* Model of @hsuite/users: UsersService (src/src/users.service.ts)         *)
(* delegating to UserModelService (src/unnamed/part_001), over the         *)
(* Mongoose collection 'auth_users' (src/src/entities/user.entity.ts).     *)
(*                                                                         *)
(* Every call is an async function: it runs from one await to the next     *)
(* without interruption, and other calls may run between two awaits.  One  *)
(* action models one such run.  JavaScript objects are functions from      *)
(* field names to values; a field that is undefined, null or missing is a  *)
(* field outside DOMAIN.  Falsy strings (undefined, null, '') are "".      *)
(***************************************************************************)
EXTENDS Naturals, Sequences, FiniteSets, TLC

\* ------------------------------------------------------------------ bounds
MaxSaves == 2
MaxTime == 1

\* The calls in flight at once.
Procs == {1, 2}

Emails == {"a@x.com", "b@x.com"}
Usernames == {"a", "b"}
Passwords == {"pw1", "pw2"}
\* The passwords updatePassword() is called with.
NewPasswords == {"pw2"}
\* Of the signups above at most two can be stored together.
Ids == {1, 2}

\* ---------------------------------------------------------- JavaScript values
Null == [kind |-> "null"]
Undefined == [kind |-> "undefined"]

Has(o, f) == f \in DOMAIN o

\* o[f] = v on a plain object: adds the field or overwrites it.
Assign(o, f, v) == [g \in DOMAIN o \cup {f} |-> IF g = f THEN v ELSE o[g]]

\* if(s) on a string: '', null and undefined are falsy.
Truthy(s) == s # ""

\* A plain object, as Document.toJSON() returns: data without document methods.
PlainObject(data) == [kind |-> "object", data |-> data]

\* A hydrated Mongoose document: data, the paths modified since it was loaded,
\* and whether it was never saved.
Document(data, modified, isNew) ==
    [kind |-> "document", data |-> data, modified |-> modified, isNew |-> isNew]

IsNullish(x) == x.kind \in {"null", "undefined"}

\* userDocument?.toJSON()
OptToJSON(x) == IF IsNullish(x) THEN Undefined ELSE PlainObject(x.data)

\* if(toJSON) resolve(userDocument?.toJSON()) else resolve(userDocument)
ResolveValue(x, toJSON) == IF toJSON THEN OptToJSON(x) ELSE x

\* ------------------------------------------------------------------- bcrypt
\* bcrypt.hash(data, 10): a salted digest.  bcrypt draws a random 128-bit
\* salt for every hash; NextSalt stands for it, a salt no earlier hash used.
BcryptRounds == 10

BcryptHash(data, rounds, salt) ==
    [alg |-> "bcrypt", rounds |-> rounds, salt |-> salt, digest |-> data]

\* A string stored as it is.
Plain(data) == [alg |-> "none", rounds |-> 0, salt |-> 0, digest |-> data]

\* ---------------------------------------------------------------- inputs
TwoFactorConfigs ==
    { [enabled |-> TRUE, secret |-> "S1", backupCodes |-> {"c1"}],
      [enabled |-> FALSE, secret |-> "S2"] }

\* The objects create() is called with: the signup fields, and possibly
\* further fields of User (UsersService.create takes a User).
SignupA == [email |-> "a@x.com", username |-> "a", password |-> "pw1"]
SignupB == [email |-> "b@x.com", username |-> "b", password |-> "pw1"]
SignupAB == [email |-> "a@x.com", username |-> "b", password |-> "pw2"]

ExtraFields ==
    { [role |-> "admin", confirmed |-> TRUE,
       twoFactorAuth |-> [enabled |-> TRUE, secret |-> "S1", backupCodes |-> {"c1"}]],
      [banned |-> TRUE] }

CreateInputs == {SignupA, SignupB, SignupAB} \cup { SignupA @@ x : x \in ExtraFields }

\* The objects find() is called with.
Logins ==
    { [email |-> "a@x.com", username |-> "", password |-> "pw1"],
      [email |-> "", username |-> "a", password |-> "pw1"],
      [email |-> "a@x.com", username |-> "a", password |-> "pw1"],
      [email |-> "a@x.com", username |-> "b", password |-> "pw1"],
      [email |-> "", username |-> "", password |-> "pw1"] }

\* The objects delete() is called with.
DeleteInputs == {SignupA, SignupAB}

\* -------------------------------------------------------------------- state
VARIABLES
    store,     \* the collection auth_users: _id -> stored fields
    nextId,    \* the next _id the driver generates
    now,       \* the clock at its last reading, in seconds
    saves,     \* how many calls have gone on to a save()
    pc,        \* per call slot: where the call in it stands
    call,      \* per call slot: the operation and its arguments
    doc,       \* per call slot: userDocument, the call's in-memory document
    emitted,   \* the events the last step handed to eventEmitter.emit
               \* (with what their subscribers did)
    returned   \* the promise the last step settled, if any

vars == <<store, nextId, now, saves, pc, call, doc, emitted, returned>>

NoCall == [op |-> "none"]
NoReturn == [op |-> "none"]

Resolved(c, v) ==
    [op |-> c.op, call |-> c, status |-> "resolved", value |-> v, error |-> ""]

Rejected(c, e) ==
    [op |-> c.op, call |-> c, status |-> "rejected", value |-> Undefined, error |-> e]

\* What the subscribers of an event do when EventEmitter2.emit calls them,
\* synchronously, one after the other: all return (or none is registered);
\* one throws; or one is an async function whose promise is still pending
\* (or rejects later) when emit returns, emit awaiting no listener.
Subscribers == {"returns", "throws", "pending"}

\* An event handed to eventEmitter.emit, and what its subscribers did.
Event(name, payload, listener) ==
    [name |-> name, payload |-> payload, listener |-> listener]

NextSalt == saves + 1

\* ------------------------------------------------------- the collection
\* The schema's paths; strict mode drops any other field of a constructor
\* argument.  ('timestamps: true' adds createdAt and updatedAt, Dates that
\* Mongoose sets by itself at every save and that no operation reads or
\* assigns; they are not carried here.  updated_at is the field the code
\* assigns, in unix seconds.)
SchemaPaths ==
    {"_id", "email", "username", "password", "role", "confirmed", "banned",
     "twoFactorAuth", "updated_at"}

\* The schema's defaults for fields the constructor argument lacks.
SchemaDefaults == [confirmed |-> FALSE]

\* new this.userModel(obj): the schema's paths of obj and the defaults; a
\* document that was never saved.
NewDocument(obj) ==
    LET cast == [f \in (DOMAIN obj \cap SchemaPaths) |-> obj[f]]
    IN  Document(cast @@ SchemaDefaults, {}, TRUE)

\* 'banned: {$in: [false, null]}': false, null or missing.
BannedInFalseNull(d) == IF Has(d, "banned") THEN d.banned = FALSE ELSE TRUE

\* Does a stored document match a filter object?  Every condition of the
\* filter must hold: the ban condition, and equality for any other field.
Matches(d, filters) ==
    /\ Has(filters, "banned") => BannedInFalseNull(d)
    /\ \A f \in DOMAIN filters \ {"banned"} : Has(d, f) /\ d[f] = filters[f]

\* Model.findOne(filters).exec(): a matching document, hydrated, or null.
\* Which one of several matches the server returns is its choice.
FindOne(filters) ==
    LET hits == {i \in DOMAIN store : Matches(store[i], filters)}
    IN  IF hits = {} THEN {Null}
        ELSE {Document(store[i], {}, FALSE) : i \in hits}

\* Model.findById(id)
ModelFindById(id) == FindOne([_id |-> id])

\* A collection whose username index is missing.
UniqueViolationEmailOnly(data) ==
    \E i \in DOMAIN store : store[i].email = data.email

\* The unique indexes on email and on username.
UniqueViolation(data) ==
    \E i \in DOMAIN store :
        store[i].email = data.email \/ store[i].username = data.username

\* The update document.save() sends for a loaded document: $set of the
\* modified paths.
Delta(d) == [f \in d.modified |-> d.data[f]]

ApplyDelta(stored, delta) ==
    [f \in DOMAIN stored \cup DOMAIN delta |->
        IF f \in DOMAIN delta THEN delta[f] ELSE stored[f]]

\* document.save(): "inserted", "updated", or the error it rejects with.
SaveOutcome(d) ==
    IF d.isNew
    THEN IF UniqueViolation(d.data) THEN "ValidationError" ELSE "inserted"
    ELSE IF d.data._id \in DOMAIN store THEN "updated"
         ELSE "DocumentNotFoundError"

\* The collection after document.save() succeeded.
StoreAfterSave(d) ==
    IF d.isNew
    THEN d.data._id :> d.data @@ store
    ELSE [store EXCEPT ![d.data._id] = ApplyDelta(@, Delta(d))]

\* The collection after document.deleteOne().
StoreAfterDeleteOne(d) ==
    [i \in DOMAIN store \ {d.data._id} |-> store[i]]

\* The in-memory document after its save() succeeded.
Saved(d) == Document(d.data, {}, FALSE)

\* userDocument.path = value on a hydrated document: the path is modified
\* when the value differs from the one it holds.
SetPath(d, f, v) ==
    IF Has(d.data, f) /\ d.data[f] = v THEN d
    ELSE Document(Assign(d.data, f, v), d.modified \cup {f}, d.isNew)

\* userDocument.markModified(path)
MarkModified(d, f) == Document(d.data, d.modified \cup {f}, d.isNew)

\* ----------------------------------------------------------------- create
\* A create() that spreads the whole input, raw password included.
CreateFieldsRaw(user, password) ==
    Assign(Assign(user, "password", Plain(user.password)), "role", "user")

\* let {password, ...newUser} = user; {...newUser, password, role: 'user'}
CreateFields(user, password) ==
    Assign(Assign([f \in DOMAIN user \ {"password"} |-> user[f]],
                  "password", password), "role", "user")

\* ------------------------------------------------------------------- Init
\* The collection outlives the process: when the services are constructed it
\* is empty, or holds an account an earlier create(SignupA) stored.
StoredByCreate(user, salt, id) ==
    Assign(NewDocument(CreateFields(user, BcryptHash(user.password, BcryptRounds, salt))).data,
           "_id", id)

Init ==
    /\ store \in { << >>, 1 :> StoredByCreate(SignupA, 0, 1) }
    /\ nextId = Cardinality(DOMAIN store) + 1
    /\ now = 0
    /\ saves = 0
    /\ pc = [p \in Procs |-> "idle"]
    /\ call = [p \in Procs |-> NoCall]
    /\ doc = [p \in Procs |-> Null]
    /\ emitted = << >>
    /\ returned = NoReturn

\* A new call takes the first free slot.
FreeSlot(p) == pc[p] = "idle" /\ \A q \in Procs : pc[q] = "idle" => p <= q

\* A call settles: its slot is free again.
Settle(p, r) ==
    /\ pc' = [pc EXCEPT ![p] = "idle"]
    /\ call' = [call EXCEPT ![p] = NoCall]
    /\ doc' = [doc EXCEPT ![p] = Null]
    /\ returned' = r

\* A call goes on to its save().
GotoSave(p, label, c, d) ==
    /\ saves < MaxSaves
    /\ saves' = saves + 1
    /\ pc' = [pc EXCEPT ![p] = label]
    /\ call' = [call EXCEPT ![p] = c]
    /\ doc' = [doc EXCEPT ![p] = d]
    /\ returned' = NoReturn

\* A call's save() succeeded: it goes on to emit and resolve.
GotoEmit(p, label, d) ==
    /\ pc' = [pc EXCEPT ![p] = label]
    /\ doc' = [doc EXCEPT ![p] = d]
    /\ returned' = NoReturn
    /\ UNCHANGED call

\* 'await userDocument.save()' of a loaded document, and the catch.
SaveLoaded(p, label) ==
    /\ IF SaveOutcome(doc[p]) = "updated"
       THEN /\ store' = StoreAfterSave(doc[p])
            /\ GotoEmit(p, label, Saved(doc[p]))
       ELSE /\ Settle(p, Rejected(call[p], SaveOutcome(doc[p])))
            /\ UNCHANGED store
    /\ emitted' = << >>
    /\ UNCHANGED <<nextId, now, saves>>

\* The error a subscriber throws.
ListenerError == "Error: thrown by a listener"

\* this.eventEmitter.emit(name, userDocument); resolve(...).  The emit is
\* inside the try block: what a listener throws leaves emit, skips the
\* resolve and reaches the catch, which rejects.
EmitAndResolve(p, name, toJSON) ==
    /\ \E listener \in Subscribers :
         /\ emitted' = << Event(name, doc[p], listener) >>
         /\ IF listener = "throws"
            THEN Settle(p, Rejected(call[p], ListenerError))
            ELSE Settle(p, Resolved(call[p], ResolveValue(doc[p], toJSON)))
    /\ UNCHANGED <<store, nextId, now, saves>>

\* create(user, toJSON), up to 'await userDocument.save()'.
create(p, user, toJSON) ==
    /\ FreeSlot(p)
    /\ LET password == BcryptHash(user.password, BcryptRounds, NextSalt)
       IN  GotoSave(p, "create_save",
                    [op |-> "create", user |-> user, toJSON |-> toJSON],
                    NewDocument(CreateFields(user, password)))
    /\ emitted' = << >>
    /\ UNCHANGED <<store, nextId, now>>

\* A create() that emits 'users/create' before it awaits the save.
createSaveEmitFirst(p) ==
    /\ pc[p] = "create_save"
    /\ LET fresh == Document(Assign(doc[p].data, "_id", nextId), {}, TRUE)
       IN  /\ emitted' = << Event("users/create", fresh, "returns") >>
           /\ IF SaveOutcome(fresh) = "inserted"
              THEN /\ store' = StoreAfterSave(fresh)
                   /\ nextId' = nextId + 1
                   /\ GotoEmit(p, "create_emit", Saved(fresh))
              ELSE /\ Settle(p, Rejected(call[p], SaveOutcome(fresh)))
                   /\ UNCHANGED <<store, nextId>>
    /\ UNCHANGED <<now, saves>>

\* 'await userDocument.save()' of create: the insert under the _id the
\* constructor drew, or the rejection.
createSave(p) ==
    /\ pc[p] = "create_save"
    /\ LET fresh == Document(Assign(doc[p].data, "_id", nextId), {}, TRUE)
       IN  IF SaveOutcome(fresh) = "inserted"
           THEN /\ store' = StoreAfterSave(fresh)
                /\ nextId' = nextId + 1
                /\ GotoEmit(p, "create_emit", Saved(fresh))
           ELSE /\ Settle(p, Rejected(call[p], SaveOutcome(fresh)))
                /\ UNCHANGED <<store, nextId>>
    /\ emitted' = << >>
    /\ UNCHANGED <<now, saves>>

\* After the save: emit 'users/create', resolve.
createEmit(p) ==
    /\ pc[p] = "create_emit"
    /\ EmitAndResolve(p, "users/create", call[p].toJSON)

\* ------------------------------------------------------------------- find
\* A find() that forgot the ban filter.
FindFiltersNoBan(user) ==
    LET f0 == << >>
        f1 == IF Truthy(user.username) THEN Assign(f0, "username", user.username) ELSE f0
    IN  IF Truthy(user.email) THEN Assign(f1, "email", user.email) ELSE f1

\* A find() that also filters on the supplied password.
FindFiltersWithPassword(user) ==
    LET f0 == [banned |-> "$in [false, null]"]
        f1 == IF Truthy(user.username) THEN Assign(f0, "username", user.username) ELSE f0
        f2 == IF Truthy(user.email) THEN Assign(f1, "email", user.email) ELSE f1
    IN  IF Truthy(user.password) THEN Assign(f2, "password", Plain(user.password)) ELSE f2

\* A find() that takes the username only when no email is given.
FindFiltersElseIf(user) ==
    LET f0 == [banned |-> "$in [false, null]"]
    IN  IF Truthy(user.email) THEN Assign(f0, "email", user.email)
        ELSE IF Truthy(user.username) THEN Assign(f0, "username", user.username)
        ELSE f0

\* The filter object find() builds.
FindFilters(user) ==
    LET f0 == [banned |-> "$in [false, null]"]
        f1 == IF Truthy(user.username) THEN Assign(f0, "username", user.username) ELSE f0
    IN  IF Truthy(user.email) THEN Assign(f1, "email", user.email) ELSE f1

\* The values the promise of find(user, toJSON) may resolve with.
findResults(user, toJSON) ==
    {ResolveValue(d, toJSON) : d \in FindOne(FindFilters(user))}

find(user, toJSON) ==
    /\ \E v \in findResults(user, toJSON) :
         returned' = Resolved([op |-> "find", user |-> user, toJSON |-> toJSON], v)
    /\ emitted' = << >>
    /\ UNCHANGED <<store, nextId, now, saves, pc, call, doc>>

\* --------------------------------------------------------------- findById
findByIdResults(id, toJSON) ==
    {ResolveValue(d, toJSON) : d \in ModelFindById(id)}

findById(id, toJSON) ==
    /\ \E v \in findByIdResults(id, toJSON) :
         returned' = Resolved([op |-> "findById", id |-> id, toJSON |-> toJSON], v)
    /\ emitted' = << >>
    /\ UNCHANGED <<store, nextId, now, saves, pc, call, doc>>

\* --------------------------------------------------------- updatePassword
\* moment().unix(): the clock, which has not gone back since its last reading.
MomentUnix == now..MaxTime

\* A lookup by email alone, banned accounts included.
updatePasswordLookupAnyAccount(userEmail) ==
    IF Truthy(userEmail) THEN FindOne([email |-> userEmail]) ELSE FindOne(<< >>)

\* this.find({email: userEmail, username: null, password: null}, false)
updatePasswordLookup(userEmail) ==
    findResults([email |-> userEmail, username |-> "", password |-> ""], FALSE)

\* updatePassword(userEmail, newPassword, toJSON), up to 'await
\* userDocument.save()': the hash, the lookup, the two assignments.  A null
\* lookup result makes the first assignment throw a TypeError.
updatePassword(p, userEmail, newPassword, toJSON) ==
    /\ FreeSlot(p)
    /\ LET c == [op |-> "updatePassword", userEmail |-> userEmail,
                 newPassword |-> newPassword, toJSON |-> toJSON]
           password == BcryptHash(newPassword, BcryptRounds, NextSalt)
       IN  \E d \in updatePasswordLookup(userEmail) :
             IF IsNullish(d)
             THEN /\ Settle(p, Rejected(c, "TypeError: Cannot set properties of null"))
                  /\ UNCHANGED <<saves, now>>
             ELSE \E t \in MomentUnix :
                    /\ now' = t
                    /\ GotoSave(p, "updatePassword_save", c,
                                SetPath(SetPath(d, "password", password), "updated_at", t))
    /\ emitted' = << >>
    /\ UNCHANGED <<store, nextId>>

updatePasswordSave(p) ==
    /\ pc[p] = "updatePassword_save"
    /\ SaveLoaded(p, "updatePassword_emit")

updatePasswordEmit(p) ==
    /\ pc[p] = "updatePassword_emit"
    /\ EmitAndResolve(p, "users/password_updated", call[p].toJSON)

\* ------------------------------------------------------ emailConfirmation
\* An emailConfirmation() that flips the flag.
ConfirmToggle(d) ==
    MarkModified(SetPath(d, "confirmed", ~d.data.confirmed), "confirmed")

\* userDocument.confirmed = true; userDocument.markModified('confirmed')
Confirm(d) == MarkModified(SetPath(d, "confirmed", TRUE), "confirmed")

\* emailConfirmation(userId), up to 'await userDocument.save()'.
emailConfirmation(p, userId) ==
    /\ FreeSlot(p)
    /\ LET c == [op |-> "emailConfirmation", userId |-> userId]
       IN  \E d \in ModelFindById(userId) :
             IF IsNullish(d)
             THEN /\ Settle(p, Rejected(c, "Error: user doesn't exist."))
                  /\ UNCHANGED saves
             ELSE GotoSave(p, "emailConfirmation_save", c,
                           Confirm(d))
    /\ emitted' = << >>
    /\ UNCHANGED <<store, nextId, now>>

emailConfirmationSave(p) ==
    /\ pc[p] = "emailConfirmation_save"
    /\ SaveLoaded(p, "emailConfirmation_emit")

emailConfirmationEmit(p) ==
    /\ pc[p] = "emailConfirmation_emit"
    /\ EmitAndResolve(p, "users/confirmed", TRUE)

\* ---------------------------------------------------- updateTwoFactorAuth
\* An updateTwoFactorAuth() that merges the config into the stored one.
SetTwoFactorAuthMerge(d, twoFactorAuth) ==
    LET old == IF Has(d.data, "twoFactorAuth") THEN d.data.twoFactorAuth ELSE << >>
    IN  MarkModified(SetPath(d, "twoFactorAuth", twoFactorAuth @@ old), "twoFactorAuth")

\* userDocument.twoFactorAuth = twoFactorAuth;
\* userDocument.markModified('twoFactorAuth')
SetTwoFactorAuth(d, twoFactorAuth) ==
    MarkModified(SetPath(d, "twoFactorAuth", twoFactorAuth), "twoFactorAuth")

\* updateTwoFactorAuth(userId, twoFactorAuth), up to 'await
\* userDocument.save()'.
updateTwoFactorAuth(p, userId, twoFactorAuth) ==
    /\ FreeSlot(p)
    /\ LET c == [op |-> "updateTwoFactorAuth", userId |-> userId,
                 twoFactorAuth |-> twoFactorAuth]
       IN  \E d \in ModelFindById(userId) :
             IF IsNullish(d)
             THEN /\ Settle(p, Rejected(c, "Error: user doesn't exist."))
                  /\ UNCHANGED saves
             ELSE GotoSave(p, "updateTwoFactorAuth_save", c,
                           SetTwoFactorAuth(d, twoFactorAuth))
    /\ emitted' = << >>
    /\ UNCHANGED <<store, nextId, now>>

updateTwoFactorAuthSave(p) ==
    /\ pc[p] = "updateTwoFactorAuth_save"
    /\ SaveLoaded(p, "updateTwoFactorAuth_emit")

updateTwoFactorAuthEmit(p) ==
    /\ pc[p] = "updateTwoFactorAuth_emit"
    /\ EmitAndResolve(p, "users/2fa", TRUE)

\* ----------------------------------------------------------------- delete
\* Only a hydrated document has deleteOne(); on a plain object or on
\* undefined the call throws a TypeError.
HasDeleteOne(x) == x.kind = "document"

\* delete(user, toJSON): 'await this.find(user)' takes find's default
\* toJSON = true, so userDocument is a plain object or undefined and
\* 'userDocument.deleteOne()' throws before anything is awaited; the catch
\* rejects.  The lines after it are taken when userDocument is a document.
\* deleteResults is what a call may do: the collection it leaves, the
\* events it emits and how it settles.
deleteResults(user, toJSON) ==
    LET c == [op |-> "delete", user |-> user, toJSON |-> toJSON]
    IN  UNION {
          IF HasDeleteOne(userDocument)
          THEN { [store |-> StoreAfterDeleteOne(userDocument),
                  emitted |-> << Event("users/delete", userDocument, listener) >>,
                  returned |-> IF listener = "throws"
                               THEN Rejected(c, ListenerError)
                               ELSE Resolved(c, ResolveValue(userDocument, toJSON))]
                 : listener \in Subscribers }
          ELSE { [store |-> store,
                  emitted |-> << >>,
                  returned |-> Rejected(c, IF IsNullish(userDocument)
                                           THEN "TypeError: Cannot read properties of undefined"
                                           ELSE "TypeError: userDocument.deleteOne is not a function")] }
          : userDocument \in findResults(user, TRUE) }

delete(user, toJSON) ==
    /\ \E o \in deleteResults(user, toJSON) :
         /\ store' = o.store
         /\ emitted' = o.emitted
         /\ returned' = o.returned
    /\ UNCHANGED <<nextId, now, saves, pc, call, doc>>

\* ----------------------------------------------------------- UsersService
\* Each method awaits the UserModelService method of the same name with its
\* own arguments (toJSON is left to its default, true) and settles as it does.
UsersService_create(p, user) == create(p, user, TRUE)
UsersService_findById(userId) == findById(userId, TRUE)
UsersService_find(user) == find(user, TRUE)
UsersService_updateTwoFactorAuth(p, userId, twoFactorAuth) ==
    updateTwoFactorAuth(p, userId, twoFactorAuth)
\* A wrapper that hands its two strings over in the wrong order.
UsersService_updatePasswordSwapped(p, userEmail, newPassword) ==
    updatePassword(p, newPassword, userEmail, TRUE)

UsersService_updatePassword(p, userEmail, newPassword) ==
    updatePassword(p, userEmail, newPassword, TRUE)
UsersService_emailConfirmation(p, userId) == emailConfirmation(p, userId)
UsersService_delete(user) == delete(user, TRUE)

Next ==
    \/ \E p \in Procs, user \in CreateInputs : UsersService_create(p, user)
    \/ \E p \in Procs : createSave(p)
    \/ \E p \in Procs : createEmit(p)
    \/ \E user \in Logins : UsersService_find(user)
    \/ \E id \in Ids : UsersService_findById(id)
    \/ \E p \in Procs, e \in Emails \cup {""}, w \in NewPasswords :
         UsersService_updatePassword(p, e, w)
    \/ \E p \in Procs : updatePasswordSave(p)
    \/ \E p \in Procs : updatePasswordEmit(p)
    \/ \E p \in Procs, id \in Ids : UsersService_emailConfirmation(p, id)
    \/ \E p \in Procs : emailConfirmationSave(p)
    \/ \E p \in Procs : emailConfirmationEmit(p)
    \/ \E p \in Procs, id \in Ids, t \in TwoFactorConfigs :
         UsersService_updateTwoFactorAuth(p, id, t)
    \/ \E p \in Procs : updateTwoFactorAuthSave(p)
    \/ \E p \in Procs : updateTwoFactorAuthEmit(p)
    \/ \E user \in DeleteInputs : UsersService_delete(user)

Spec == Init /\ [][Next]_vars


\* ================================================================ claims
\* An account is banned when its banned flag is true.
Banned(d) == Has(d, "banned") /\ d.banned = TRUE

\* An account (a plain object or a document) was handed back.
IsAccount(x) == x.kind \in {"object", "document"}

\* The rejections that come from a lookup that found nothing: the explicit
\* throw of emailConfirmation and updateTwoFactorAuth, and the TypeError of
\* using the null or undefined lookup result.  (The repository defines no
\* error classes; these are what the spec calls NotFoundError.)
NotFoundError(e) ==
    e \in { "Error: user doesn't exist.",
            "TypeError: Cannot set properties of null",
            "TypeError: Cannot read properties of undefined" }

\* ---------------------------------------------------------------------- C1
\* C1: in every reachable state, find never hands back an account whose
\* banned flag is true, whatever email and username it is called with (as
\* a plain object or as a document), while findById with the id of a banned
\* account hands back that account.
C1_BanExclusion ==
    /\ \A user \in Logins, toJSON \in BOOLEAN :
         \A v \in findResults(user, toJSON) : IsAccount(v) => ~Banned(v.data)
    /\ (returned.op = "find" /\ IsAccount(returned.value)) => ~Banned(returned.value.data)
    /\ \A i \in DOMAIN store :
         Banned(store[i]) => findByIdResults(i, TRUE) = {PlainObject(store[i])}
    /\ (returned.op = "findById" /\ returned.call.id \in DOMAIN store)
         => /\ returned.status = "resolved"
            /\ returned.value = PlainObject(store[returned.call.id])

\* A find by the email of a stored banned account has just come back empty,
\* and findById still hands that account back.
C1_Witness ==
    /\ returned.op = "find"
    /\ \E i \in DOMAIN store :
         /\ Banned(store[i])
         /\ returned.call.user.email = store[i].email
         /\ ~IsAccount(returned.value)
         /\ PlainObject(store[i]) \in findByIdResults(i, TRUE)

\* ---------------------------------------------------------------------- C2
\* C2: a lookup that matches no stored account is rejected: find and
\* findById never resolve with undefined or null.
C2_LookupMissRejects ==
    returned.op \in {"find", "findById"} =>
        (returned.status = "resolved" => IsAccount(returned.value))

\* ---------------------------------------------------------------------- C3
\* The active stored accounts with the email and the username of user.
ActiveWith(user) ==
    {i \in DOMAIN store :
        /\ ~Banned(store[i])
        /\ store[i].email = user.email
        /\ store[i].username = user.username}

\* A step that settles a delete called with the email and username of an
\* active stored account: it resolved, removed and emitted.
C3_DeleteStep ==
    (returned'.op = "delete" /\ ActiveWith(returned'.call.user) # {}) =>
        \E i \in ActiveWith(returned'.call.user) :
            /\ returned'.status = "resolved"
            /\ i \notin DOMAIN store'
            /\ Len(emitted') = 1
            /\ emitted'[1].name = "users/delete"
            /\ IsAccount(returned'.value)
            /\ returned'.value.data = store[i]

\* C3: a delete called with the email and username of an existing active
\* account removes that account's record, emits exactly one 'users/delete'
\* event and resolves with the snapshot of the deleted account.
C3_DeleteSucceeds == [][C3_DeleteStep]_vars

\* ---------------------------------------------------------------------- C5
\* C5: every account create resolves with has role 'user', confirmed =
\* false and no two-factor configuration, whatever further fields the input
\* carried, is stored so, and one 'users/create' event was emitted.
C5_CreateDefaults ==
    (returned.op = "create" /\ returned.status = "resolved") =>
        LET a == returned.value.data
        IN  /\ a.role = "user"
            /\ a.confirmed = FALSE
            /\ ~Has(a, "twoFactorAuth")
            /\ a._id \in DOMAIN store
            /\ store[a._id].role = "user"
            /\ store[a._id].confirmed = FALSE
            /\ ~Has(store[a._id], "twoFactorAuth")
            /\ Len(emitted) = 1
            /\ emitted[1].name = "users/create"

\* ---------------------------------------------------------------------- C6
\* No two stored accounts share an email, and no two share a username.
UniqueIndexes ==
    \A i, j \in DOMAIN store :
        i # j => /\ store[i].email # store[j].email
                 /\ store[i].username # store[j].username

\* The save of a create whose email or username is that of a stored account
\* rejects with ValidationError, stores nothing and emits nothing.
C6_DuplicateStep ==
    \A p \in Procs :
        (pc[p] = "create_save" /\ pc'[p] # "create_save" /\ UniqueViolation(doc[p].data)) =>
            /\ returned'.op = "create"
            /\ returned'.status = "rejected"
            /\ returned'.error = "ValidationError"
            /\ store' = store
            /\ emitted' = << >>

\* C6: create with the email or the username of a stored account fails with
\* ValidationError, persists nothing and emits no event; so in every
\* reachable state no two stored accounts share an email or a username.
C6_Uniqueness == [](UniqueIndexes) /\ [][C6_DuplicateStep]_vars

\* A create was just rejected for a duplicate, and two accounts are stored.
C6_Witness ==
    /\ returned.op = "create"
    /\ returned.status = "rejected"
    /\ returned.error = "ValidationError"
    /\ \E i \in DOMAIN store :
         \/ store[i].email = returned.call.user.email
         \/ store[i].username = returned.call.user.username

\* ---------------------------------------------------------------------- C7
\* C7: in every reachable state the stored password of every account is a
\* bcrypt hash, never a raw password; no in-flight document about to be
\* saved carries a raw password either.
C7_PasswordHashed ==
    /\ \A i \in DOMAIN store :
         /\ store[i].password.alg = "bcrypt"
         /\ store[i].password \notin {Plain(w) : w \in Passwords}
    /\ \A p \in Procs :
         doc[p].kind = "document" =>
             /\ doc[p].data.password.alg = "bcrypt"
             /\ doc[p].data.password \notin {Plain(w) : w \in Passwords}

\* An updatePassword has resolved: the stored password of its account is
\* the bcrypt hash of the new raw password.
C7_Witness ==
    /\ returned.op = "updatePassword"
    /\ returned.status = "resolved"
    /\ \E i \in DOMAIN store :
         /\ i = returned.value.data._id
         /\ store[i].password.alg = "bcrypt"
         /\ store[i].password.digest = returned.call.newPassword
         /\ store[i].password = returned.value.data.password

\* ---------------------------------------------------------------------- C8
\* The stored accounts with this email that are not banned.
ActiveWithEmail(e) ==
    {i \in DOMAIN store : ~Banned(store[i]) /\ store[i].email = e}

\* A step of updatePassword with an email no active account has: it
\* rejects, and leaves the collection and the calls in flight as they were.
C8_UpdatePasswordStep ==
    \A p \in Procs, e \in Emails, w \in NewPasswords :
        (ActiveWithEmail(e) = {} /\ updatePassword(p, e, w, TRUE)) =>
            /\ returned'.op = "updatePassword"
            /\ returned'.status = "rejected"
            /\ NotFoundError(returned'.error)
            /\ store' = store
            /\ pc' = pc
            /\ emitted' = << >>

C9_MonotoneStep ==
    \A i \in DOMAIN store :
        (store[i].confirmed = TRUE /\ i \in DOMAIN store') => store'[i].confirmed = TRUE

\* An emailConfirmation for a stored account resolves, with the account
\* confirmed in the result and in the store.
C9_ConfirmStep ==
    (returned'.op = "emailConfirmation" /\ returned' # returned
        /\ returned'.call.userId \in DOMAIN store) =>
        /\ returned'.status = "resolved"
        /\ returned'.value.data.confirmed = TRUE
        /\ returned'.call.userId \in DOMAIN store'
        /\ store'[returned'.call.userId].confirmed = TRUE

\* C9: once an account's confirmed is true it stays true under every
\* interleaving of the calls, and emailConfirmation on a confirmed account
\* succeeds and leaves it confirmed.
C9_ConfirmationMonotone == [][C9_MonotoneStep /\ C9_ConfirmStep]_vars

\* An updatePassword that read the account before a concurrent
\* emailConfirmation wrote it has resolved: its own copy is still not
\* confirmed, the stored account is.
C9_Witness ==
    /\ returned.op = "updatePassword"
    /\ returned.status = "resolved"
    /\ returned.value.data.confirmed = FALSE
    /\ store[returned.value.data._id].confirmed = TRUE

\* --------------------------------------------------------------------- C10
\* The save of updateTwoFactorAuth leaves exactly the call's config stored.
C10_ReplaceStep ==
    \A p \in Procs :
        (pc[p] = "updateTwoFactorAuth_save" /\ pc'[p] = "updateTwoFactorAuth_emit") =>
            /\ Has(store'[call[p].userId], "twoFactorAuth")
            /\ store'[call[p].userId].twoFactorAuth = call[p].twoFactorAuth

\* updateTwoFactorAuth for an id that is not stored rejects and changes
\* nothing.
C10_MissingStep ==
    \A p \in Procs, id \in Ids, t \in TwoFactorConfigs :
        (id \notin DOMAIN store /\ updateTwoFactorAuth(p, id, t)) =>
            /\ returned'.status = "rejected"
            /\ NotFoundError(returned'.error)
            /\ store' = store
            /\ pc' = pc
            /\ emitted' = << >>

\* C10: updateTwoFactorAuth on an existing account replaces the whole
\* two-factor structure by the given config, no field of the previous one
\* surviving; for an id that is not stored it fails and changes nothing.
C10_TwoFactorReplace == [][C10_ReplaceStep /\ C10_MissingStep]_vars

\* An account that create stored with a two-factor config holding
\* backupCodes (the only first save that leaves an account confirmed) got,
\* by the second save, a config without them.
C10_Witness ==
    /\ returned.op = "updateTwoFactorAuth"
    /\ returned.status = "resolved"
    /\ saves = 2
    /\ ~Has(returned.call.twoFactorAuth, "backupCodes")
    /\ \E i \in DOMAIN store :
         /\ i = returned.call.userId
         /\ store[i].password.salt = 1
         /\ store[i].confirmed = TRUE
         /\ store[i].twoFactorAuth = returned.call.twoFactorAuth

\* --------------------------------------------------------------------- C11
\* The operations that write, their events and the two awaits of each call.
MutatingOps ==
    {"create", "updatePassword", "emailConfirmation", "updateTwoFactorAuth", "delete"}

EventName ==
    [create |-> "users/create", updatePassword |-> "users/password_updated",
     emailConfirmation |-> "users/confirmed", updateTwoFactorAuth |-> "users/2fa",
     delete |-> "users/delete"]

SaveLabel ==
    [create |-> "create_save", updatePassword |-> "updatePassword_save",
     emailConfirmation |-> "emailConfirmation_save",
     updateTwoFactorAuth |-> "updateTwoFactorAuth_save"]

EmitLabel ==
    [create |-> "create_emit", updatePassword |-> "updatePassword_emit",
     emailConfirmation |-> "emailConfirmation_emit",
     updateTwoFactorAuth |-> "updateTwoFactorAuth_emit"]

\* The call in slot p has its write behind it.
Wrote(p) == pc[p] # "idle" /\ pc[p] = EmitLabel[call[p].op]

\* The account data carries the mutation call c asked for.
PostMutation(c, data) ==
    CASE c.op = "create" ->
            /\ data.email = c.user.email
            /\ data.username = c.user.username
            /\ data.password.digest = c.user.password
            /\ data.role = "user"
      [] c.op = "updatePassword" ->
            /\ data.password.alg = "bcrypt"
            /\ data.password.digest = c.newPassword
            /\ Has(data, "updated_at")
      [] c.op = "emailConfirmation" ->
            data._id = c.userId /\ data.confirmed = TRUE
      [] c.op = "updateTwoFactorAuth" ->
            /\ data._id = c.userId
            /\ Has(data, "twoFactorAuth")
            /\ data.twoFactorAuth = c.twoFactorAuth
      [] OTHER -> FALSE

\* What the last step emitted and settled: at most one event, only in a
\* step that settles a mutating call, of that call's kind; a call that
\* resolved emitted one, carrying the account it resolves with, its
\* mutation in it; a call rejected by its lookup or its write emitted none.
C11_EventOfLastStep ==
    /\ Len(emitted) <= 1
    /\ emitted # << >> =>
         /\ returned.op \in MutatingOps
         /\ emitted[1].name = EventName[returned.op]
         /\ emitted[1].payload.kind = "document"
         /\ emitted[1].payload.modified = {}
         /\ PostMutation(returned.call, emitted[1].payload.data)
    /\ (returned.op \in MutatingOps /\ returned.status = "resolved") =>
         /\ Len(emitted) = 1
         /\ IsAccount(returned.value)
         /\ returned.value.data = emitted[1].payload.data
    /\ (returned.op \in MutatingOps /\ returned.status = "rejected"
            /\ returned.error # ListenerError) => emitted = << >>

\* A step that emits is the step that settles a call whose write succeeded
\* in an earlier step; a call gets its write behind it only by the step in
\* which its save succeeds, and then the stored account holds what the
\* call's document (the later payload) holds in every path the call wrote.
C11_EmitStep ==
    /\ emitted' # << >> =>
         \E p \in Procs :
            /\ Wrote(p)
            /\ pc'[p] = "idle"
            /\ returned'.call = call[p]
            /\ emitted'[1].payload = doc[p]
    /\ \A p \in Procs :
         (pc'[p] # "idle" /\ pc'[p] = EmitLabel[call'[p].op] /\ pc'[p] # pc[p]) =>
            /\ pc[p] = SaveLabel[call[p].op]
            /\ call'[p] = call[p]
            /\ emitted' = << >>
            /\ doc'[p].data._id \in DOMAIN store'
            /\ \A f \in (IF doc[p].isNew THEN DOMAIN doc'[p].data ELSE doc[p].modified) :
                  store'[doc'[p].data._id][f] = doc'[p].data[f]

\* C11: each successful call of a mutating operation emits exactly one
\* event, of the kind matching the operation, carrying the post-mutation
\* account; the event is emitted after the write has succeeded and before
\* the call resolves; a call whose lookup or write fails emits no event.
C11_EventPerMutation == [](C11_EventOfLastStep) /\ [][C11_EmitStep]_vars

\* A create has resolved: the last step emitted one 'users/create' event
\* whose payload is the stored account.
C11_Witness ==
    /\ returned.op = "create"
    /\ returned.status = "resolved"
    /\ Len(emitted) = 1
    /\ emitted[1].name = "users/create"
    /\ emitted[1].payload.data._id \in DOMAIN store
    /\ emitted[1].payload.data = store[emitted[1].payload.data._id]

\* --------------------------------------------------------------------- C12
\* C12: a failing or slow subscriber never fails the originating operation:
\* when the subscriber of the event the last step emitted threw, or has not
\* completed, the call that emitted it still resolved with the account.
C12_SubscriberIsolation ==
    (emitted # << >> /\ emitted[1].listener \in {"throws", "pending"}) =>
        /\ returned.status = "resolved"
        /\ IsAccount(returned.value)
        /\ returned.value.data = emitted[1].payload.data

\* --------------------------------------------------------------------- C13
\* A call that settles after an await either resolves with its one write
\* behind it and one event emitted, or is rejected having written nothing;
\* a call rejected in its first step leaves the collection as it was.
C13_SettleStep ==
    /\ \A p \in Procs :
         (pc[p] # "idle" /\ pc'[p] = "idle") =>
            IF returned'.status = "resolved"
            THEN Wrote(p) /\ Len(emitted') = 1
            ELSE ~Wrote(p) /\ store' = store /\ emitted' = << >>
    /\ (pc' = pc /\ returned'.op \in MutatingOps /\ returned'.status = "rejected") =>
         store' = store /\ emitted' = << >>
    /\ (pc' = pc /\ returned'.op \in MutatingOps /\ returned'.status = "resolved") =>
         store' # store /\ Len(emitted') = 1

\* C13: no partial failure: every call either resolves after exactly one
\* persisted write and one event emission, or is rejected with nothing of
\* its own persisted; no call is rejected although its write was persisted.
C13_NoPartialFailure == [][C13_SettleStep]_vars

\* --------------------------------------------------------------------- C14
\* The first step of the UserModelService call that made the call record c
\* (a call record holds the arguments its method received), with toJSON
\* left to its default.
DelegateCall(p, c) ==
    CASE c.op = "create" -> create(p, c.user, TRUE)
      [] c.op = "findById" -> findById(c.id, TRUE)
      [] c.op = "find" -> find(c.user, TRUE)
      [] c.op = "updateTwoFactorAuth" -> updateTwoFactorAuth(p, c.userId, c.twoFactorAuth)
      [] c.op = "updatePassword" -> updatePassword(p, c.userEmail, c.newPassword, TRUE)
      [] c.op = "emailConfirmation" -> emailConfirmation(p, c.userId)
      [] c.op = "delete" -> delete(c.user, TRUE)
      [] OTHER -> FALSE

\* The UsersService method of that name, called with those arguments.
ServiceCall(p, c) ==
    CASE c.op = "create" -> UsersService_create(p, c.user)
      [] c.op = "findById" -> UsersService_findById(c.id)
      [] c.op = "find" -> UsersService_find(c.user)
      [] c.op = "updateTwoFactorAuth" ->
            UsersService_updateTwoFactorAuth(p, c.userId, c.twoFactorAuth)
      [] c.op = "updatePassword" -> UsersService_updatePassword(p, c.userEmail, c.newPassword)
      [] c.op = "emailConfirmation" -> UsersService_emailConfirmation(p, c.userId)
      [] c.op = "delete" -> UsersService_delete(c.user)
      [] OTHER -> FALSE

\* The step of a UserModelService call after one of its awaits.
Continuation(p) ==
    CASE pc[p] = "create_save" -> createSave(p)
      [] pc[p] = "create_emit" -> createEmit(p)
      [] pc[p] = "updatePassword_save" -> updatePasswordSave(p)
      [] pc[p] = "updatePassword_emit" -> updatePasswordEmit(p)
      [] pc[p] = "emailConfirmation_save" -> emailConfirmationSave(p)
      [] pc[p] = "emailConfirmation_emit" -> emailConfirmationEmit(p)
      [] pc[p] = "updateTwoFactorAuth_save" -> updateTwoFactorAuthSave(p)
      [] pc[p] = "updateTwoFactorAuth_emit" -> updateTwoFactorAuthEmit(p)
      [] OTHER -> FALSE

\* Every step is one step of one UserModelService call.  It is either the
\* continuation of a call in flight, to which UsersService adds nothing; or
\* the first step of a call, going on to its save or settling at once,
\* and then it is the step of the UserModelService method on the arguments
\* in its call record and also the step of the UsersService method called
\* with those very arguments: same settlement, same value or error, same
\* effect on the collection.  There is no other step: no retry, no write
\* of UsersService's own.
C14_DelegationStep ==
    IF \E p \in Procs : pc[p] # "idle" /\ pc'[p] # pc[p]
    THEN \E p \in Procs : pc[p] # "idle" /\ pc'[p] # pc[p] /\ Continuation(p)
    ELSE IF \E p \in Procs : pc[p] = "idle" /\ pc'[p] # "idle"
    THEN \E p \in Procs :
            /\ pc[p] = "idle" /\ pc'[p] # "idle"
            /\ DelegateCall(p, call'[p])
            /\ ServiceCall(p, call'[p])
    ELSE /\ returned'.op # "none"
         /\ \E p \in Procs :
              /\ FreeSlot(p) \/ (p = 1 /\ \A q \in Procs : pc[q] # "idle")
              /\ DelegateCall(p, returned'.call)
              /\ ServiceCall(p, returned'.call)

ConcurrentUpdatePassword(p, q) ==
    /\ p # q
    /\ call[p].op = "updatePassword"
    /\ call[q].op = "updatePassword"
    /\ doc[p].data._id = doc[q].data._id

\* With two updatePassword calls in flight for one account: the save of
\* either succeeds and leaves its own hash stored, over the hash the other
\* may have written before, and either call, once it has saved, resolves
\* with the account carrying its hash and emits 'users/password_updated'.
C15_RaceStep ==
    \A p, q \in Procs :
        ConcurrentUpdatePassword(p, q) =>
            /\ (pc[p] = "updatePassword_save" /\ pc'[p] # pc[p]) =>
                   /\ pc'[p] = "updatePassword_emit"
                   /\ store'[doc[p].data._id].password = doc[p].data.password
                   /\ store'[doc[p].data._id].password # doc[q].data.password
            /\ (pc[p] = "updatePassword_emit" /\ pc'[p] # pc[p]) =>
                   /\ returned'.status = "resolved"
                   /\ returned'.value.data.password = doc[p].data.password
                   /\ Len(emitted') = 1
                   /\ emitted'[1].name = "users/password_updated"

\* C15: two concurrent updatePassword calls for the same account, in any
\* interleaving of their reads and writes, both succeed; the stored hash is
\* that of the call that wrote last, the other write being lost without an
\* error; and each emits its 'users/password_updated' event.
C15_LastWriterWins == [][C15_RaceStep]_vars

\* --------------------------------------------------------------------- C16
\* The fields updatePassword is to change.
PasswordFields == {"password", "updated_at"}

\* The step in which the save of an updatePassword call succeeds: the
\* account written is the one whose email is the call's email; its hash
\* is a new one and its update timestamp the one the call read; its other
\* fields, and all other accounts, are as they were.
C16_WriteStep ==
    \A p \in Procs :
        (pc[p] = "updatePassword_save" /\ pc'[p] = "updatePassword_emit") =>
            LET id == doc[p].data._id
            IN  /\ store[id].email = call[p].userEmail
                /\ store'[id].password # store[id].password
                /\ store'[id].password.digest = call[p].newPassword
                /\ Has(store'[id], "updated_at")
                /\ store'[id].updated_at = doc[p].data.updated_at
                /\ DOMAIN store' = DOMAIN store
                /\ \A i \in DOMAIN store : i # id => store'[i] = store[i]
                /\ DOMAIN store'[id] = DOMAIN store[id] \cup {"updated_at"}
                /\ \A f \in DOMAIN store[id] \ PasswordFields :
                      store'[id][f] = store[id][f]

\* No step of an updatePassword call other than its save changes the
\* collection.
C16_OtherSteps ==
    \A p \in Procs :
        (call[p].op = "updatePassword" /\ pc'[p] # pc[p] /\ pc[p] # "updatePassword_save")
            => store' = store

\* C16: a successful updatePassword(email, newPassword) changes the
\* password hash (to a new value) and the update timestamp of exactly the
\* account whose email is the supplied email, and leaves every other
\* account and every other field of that account unchanged, for every
\* value of email, an empty or null one included.
C16_UpdatePasswordFrame == [][C16_WriteStep /\ C16_OtherSteps]_vars

\* --------------------------------------------------------------------- C17
\* The operations that change a stored account.
UpdateOps == {"updatePassword", "emailConfirmation", "updateTwoFactorAuth"}

\* A call of one of them that found its account puts the time it reads
\* into the account's update timestamp before it goes on to its save.
C17_StampStep ==
    \A p \in Procs :
        (pc[p] = "idle" /\ pc'[p] # "idle" /\ call'[p].op \in UpdateOps) =>
            /\ Has(doc'[p].data, "updated_at")
            /\ doc'[p].data.updated_at = now'

\* The step in which its save succeeds leaves that time stored, and the
\* stored update timestamp is not less than it was.
C17_SaveStep ==
    \A p \in Procs :
        (call[p].op \in UpdateOps /\ pc[p] = SaveLabel[call[p].op]
            /\ pc'[p] = EmitLabel[call[p].op]) =>
            LET id == doc[p].data._id
            IN  /\ Has(store'[id], "updated_at")
                /\ Has(doc[p].data, "updated_at")
                /\ store'[id].updated_at = doc[p].data.updated_at
                /\ Has(store[id], "updated_at") =>
                      store'[id].updated_at >= store[id].updated_at

ActiveMatching(user) ==
    {i \in DOMAIN store :
        /\ ~Banned(store[i])
        /\ Truthy(user.email) => store[i].email = user.email
        /\ Truthy(user.username) => store[i].username = user.username}

\* v is what find(user) may resolve with: one of the accounts matching
\* every supplied field, or no account when there is none.
AndResult(user, v) ==
    IF ActiveMatching(user) = {} THEN ~IsAccount(v)
    ELSE /\ IsAccount(v)
         /\ \E i \in ActiveMatching(user) : v.data = store[i]

\* C18: find matches by the logical AND of the supplied fields: the
\* account it returns is not banned and has the supplied email and the
\* supplied username, whichever are supplied; when no single active
\* account has both it returns no account, even if one account has the
\* email and another the username.
C18_FindAnd ==
    returned.op = "find" =>
        /\ returned.status = "resolved"
        /\ AndResult(returned.call.user, returned.value)
        /\ \A toJSON \in BOOLEAN :
             \A v \in findResults(returned.call.user, toJSON) :
                AndResult(returned.call.user, v)

\* find was called with the email of one active account and the username
\* of another, and resolved with no account.
C18_Witness ==
    /\ returned.op = "find"
    /\ ~IsAccount(returned.value)
    /\ \E i, j \in DOMAIN store :
         /\ i # j
         /\ ~Banned(store[i]) /\ store[i].email = returned.call.user.email
         /\ ~Banned(store[j]) /\ store[j].username = returned.call.user.username

\* --------------------------------------------------------------------- C19
\* The passwords a lookup or a deletion may be called with: any raw
\* password, or none (updatePassword itself calls find with password: null).
PasswordVariants == Passwords \cup {""}

\* The same argument with another password.
WithPassword(user, w) == [user EXCEPT !.password = w]

\* What a delete call did, its own arguments left aside.
DeleteOutcome(o) ==
    [store |-> o.store, emitted |-> o.emitted, status |-> o.returned.status,
     value |-> o.returned.value, error |-> o.returned.error]

====
